---- MODULE Spec2Model ----
(***************************************************************************)
(* hacklet_rs: the frame codec (messages/requests.rs, messages/responses.rs),*)
(* the serial transport (serial_connection.rs), the device session          *)
(* (dongle.rs) and the CLI dispatch (command.rs).                           *)
(*                                                                          *)
(* Bytes are naturals 0..255 and a frame is a sequence of bytes.  Rust      *)
(* indexes from 0, so At(s, i) is s[i] of the source.  TLC integers are     *)
(* 32-bit signed, so a u32 is kept as two 16-bit limbs <<hi, lo>> and a u64 *)
(* as four 16-bit limbs, most significant first; the byte order of a write  *)
(* or a read is computed limb by limb.                                      *)
(***************************************************************************)
EXTENDS Integers, Sequences, FiniteSets, TLC

(***************************************************************************)
(* Byte-level helpers: std slices, byteorder::WriteBytesExt, from_*_bytes.  *)
(***************************************************************************)
At(s, i) == s[i + 1]

Slice(s, a, b) == SubSeq(s, a + 1, b)

RECURSIVE XorBits(_, _, _)
XorBits(a, b, n) ==
    IF n = 0 THEN 0
    ELSE (((a % 2) + (b % 2)) % 2) + 2 * XorBits(a \div 2, b \div 2, n - 1)

\* the ^ of two bytes, tabulated once so that each operand is read once
XorTable == [a \in 0..255 |-> [b \in 0..255 |-> XorBits(a, b, 8)]]

Xor8(a, b) == XorTable[a][b]

RECURSIVE XorFoldFrom(_, _, _)
XorFoldFrom(buffer, i, acc) ==
    IF i > Len(buffer) THEN acc
    ELSE XorFoldFrom(buffer, i + 1, Xor8(acc, buffer[i]))

XorFold(buffer) == XorFoldFrom(buffer, 1, 0)

write_u8(v) == <<v % 256>>

write_u16_BE(v) == <<(v \div 256) % 256, v % 256>>

write_u16_LE(v) == <<v % 256, (v \div 256) % 256>>

write_u32_BE(v) == write_u16_BE(v[1]) \o write_u16_BE(v[2])

write_u32_LE(v) == write_u16_LE(v[2]) \o write_u16_LE(v[1])

write_u64_BE(v) ==
    write_u16_BE(v[1]) \o write_u16_BE(v[2]) \o write_u16_BE(v[3]) \o write_u16_BE(v[4])

u16_from_be_bytes(b) == b[1] * 256 + b[2]

u16_from_le_bytes(b) == b[2] * 256 + b[1]

u32_from_be_bytes(b) == <<b[1] * 256 + b[2], b[3] * 256 + b[4]>>

u32_from_le_bytes(b) == <<b[4] * 256 + b[3], b[2] * 256 + b[1]>>

u64_from_be_bytes(b) ==
    <<b[1] * 256 + b[2], b[3] * 256 + b[4], b[5] * 256 + b[6], b[7] * 256 + b[8]>>

(***************************************************************************)
(* nom::IResult as the decoders use it: Ok((input, message)) carries the    *)
(* input slice it was given, Err(Incomplete(Needed)) the wanted length.     *)
(***************************************************************************)
Ok(input, m) == [ok |-> TRUE, rest |-> input, msg |-> m, needed |-> 0]

Incomplete(n) == [ok |-> FALSE, rest |-> <<>>, msg |-> <<>>, needed |-> n]

(***************************************************************************)
(* messages/requests.rs                                                     *)
(***************************************************************************)
\* a fold that starts at the header byte; C11 tells it from calculate_checksum
BootRequest_checksum_from_header(m) ==
    XorFold(write_u8(m.header) \o write_u16_BE(m.command) \o write_u8(m.payload_length))

BootRequest_calculate_checksum(m) ==
    XorFold(write_u16_BE(m.command) \o write_u8(m.payload_length))

BootRequest_new ==
    LET req == [header |-> 2, command |-> 16388, payload_length |-> 0, checksum |-> 0]
    IN  [req EXCEPT !.checksum = BootRequest_calculate_checksum(req)]

BootRequest_as_bytes(m) ==
    write_u8(m.header) \o write_u16_BE(m.command) \o write_u8(m.payload_length)
        \o write_u8(m.checksum)

BootRequest_read(input) ==
    IF Len(input) < 5 THEN Incomplete(5)
    ELSE Ok(input, [BootRequest_new EXCEPT
                !.header = At(input, 0),
                !.command = u16_from_be_bytes(<<At(input, 1), At(input, 2)>>),
                !.payload_length = At(input, 3),
                !.checksum = At(input, 4)])

BootConfirmRequest_calculate_checksum(m) ==
    XorFold(write_u16_BE(m.command) \o write_u8(m.payload_length))

BootConfirmRequest_new ==
    LET req == [header |-> 2, command |-> 16384, payload_length |-> 1, checksum |-> 0]
    IN  [req EXCEPT !.checksum = BootConfirmRequest_calculate_checksum(req)]

BootConfirmRequest_as_bytes(m) ==
    write_u8(m.header) \o write_u16_BE(m.command) \o write_u8(m.payload_length)
        \o write_u8(m.checksum)

BootConfirmRequest_read(input) ==
    IF Len(input) < 5 THEN Incomplete(5)
    ELSE Ok(input, [BootConfirmRequest_new EXCEPT
                !.header = At(input, 0),
                !.command = u16_from_be_bytes(<<At(input, 1), At(input, 2)>>),
                !.payload_length = At(input, 3),
                !.checksum = At(input, 4)])

\* 0xFCFF9001 and 0xFCFF0001 as <<hi, lo>> limbs
UnlockData == <<64767, 36865>>

LockData == <<64767, 1>>

UnlockRequest_calculate_checksum(m) ==
    XorFold(write_u16_BE(m.command) \o write_u8(m.payload_length) \o write_u32_BE(m.data))

UnlockRequest_new ==
    LET req == [header |-> 2, command |-> 41526, payload_length |-> 4,
                data |-> UnlockData, checksum |-> 0]
    IN  [req EXCEPT !.checksum = UnlockRequest_calculate_checksum(req)]

UnlockRequest_as_bytes(m) ==
    write_u8(m.header) \o write_u16_BE(m.command) \o write_u8(m.payload_length)
        \o write_u32_BE(m.data) \o write_u8(m.checksum)

UnlockRequest_read(input) ==
    IF Len(input) < 9 THEN Incomplete(9)
    ELSE Ok(input, [UnlockRequest_new EXCEPT
                !.header = At(input, 0),
                !.command = u16_from_be_bytes(<<At(input, 1), At(input, 2)>>),
                !.payload_length = At(input, 3),
                !.data = u32_from_be_bytes(Slice(input, 4, 8)),
                !.checksum = At(input, 8)])

LockRequest_calculate_checksum(m) ==
    XorFold(write_u16_BE(m.command) \o write_u8(m.payload_length) \o write_u32_BE(m.data))

LockRequest_new ==
    LET req == [header |-> 2, command |-> 41526, payload_length |-> 4,
                data |-> LockData, checksum |-> 0]
    IN  [req EXCEPT !.checksum = LockRequest_calculate_checksum(req)]

LockRequest_as_bytes(m) ==
    write_u8(m.header) \o write_u16_BE(m.command) \o write_u8(m.payload_length)
        \o write_u32_BE(m.data) \o write_u8(m.checksum)

LockRequest_read(input) ==
    IF Len(input) < 9 THEN Incomplete(9)
    ELSE Ok(input, [LockRequest_new EXCEPT
                !.header = At(input, 0),
                !.command = u16_from_be_bytes(<<At(input, 1), At(input, 2)>>),
                !.payload_length = At(input, 3),
                !.data = u32_from_be_bytes(Slice(input, 4, 8)),
                !.checksum = At(input, 8)])

UpdateTimeRequest_calculate_checksum(m) ==
    XorFold(write_u16_BE(m.command) \o write_u8(m.payload_length)
            \o write_u16_BE(m.network_id) \o write_u32_LE(m.time))

\* now: SystemTime::now() since UNIX_EPOCH, as_secs() as u32
UpdateTimeRequest_new(network_id, now) ==
    LET req == [header |-> 2, command |-> 16418, payload_length |-> 6,
                network_id |-> network_id, time |-> now, checksum |-> 0]
    IN  [req EXCEPT !.checksum = UpdateTimeRequest_calculate_checksum(req)]

UpdateTimeRequest_as_bytes(m) ==
    write_u8(m.header) \o write_u16_BE(m.command) \o write_u8(m.payload_length)
        \o write_u16_BE(m.network_id) \o write_u32_LE(m.time) \o write_u8(m.checksum)

UpdateTimeRequest_read(input, now) ==
    IF Len(input) < 11 THEN Incomplete(11)
    ELSE LET network_id == u16_from_be_bytes(<<At(input, 4), At(input, 5)>>)
         IN  Ok(input, [UpdateTimeRequest_new(network_id, now) EXCEPT
                !.header = At(input, 0),
                !.command = u16_from_be_bytes(<<At(input, 1), At(input, 2)>>),
                !.payload_length = At(input, 3),
                !.time = u32_from_le_bytes(Slice(input, 6, 10)),
                !.checksum = At(input, 10)])

HandshakeRequest_calculate_checksum(m) ==
    XorFold(write_u16_BE(m.command) \o write_u8(m.payload_length)
            \o write_u16_BE(m.network_id) \o write_u16_BE(m.data))

HandshakeRequest_new(network_id) ==
    LET req == [header |-> 2, command |-> 16387, payload_length |-> 4,
                network_id |-> network_id, data |-> 1280, checksum |-> 0]
    IN  [req EXCEPT !.checksum = HandshakeRequest_calculate_checksum(req)]

HandshakeRequest_as_bytes(m) ==
    write_u8(m.header) \o write_u16_BE(m.command) \o write_u8(m.payload_length)
        \o write_u16_BE(m.network_id) \o write_u16_BE(m.data) \o write_u8(m.checksum)

HandshakeRequest_read(input) ==
    IF Len(input) < 9 THEN Incomplete(9)
    ELSE LET network_id == u16_from_be_bytes(<<At(input, 4), At(input, 5)>>)
         IN  Ok(input, [HandshakeRequest_new(network_id) EXCEPT
                !.header = At(input, 0),
                !.command = u16_from_be_bytes(<<At(input, 1), At(input, 2)>>),
                !.payload_length = At(input, 3),
                !.data = u16_from_be_bytes(<<At(input, 6), At(input, 7)>>),
                !.checksum = At(input, 8)])

SamplesRequest_calculate_checksum(m) ==
    XorFold(write_u16_BE(m.command) \o write_u8(m.payload_length)
            \o write_u16_BE(m.network_id) \o write_u16_BE(m.channel_id)
            \o write_u16_BE(m.data))

SamplesRequest_new(network_id, channel_id) ==
    LET req == [header |-> 2, command |-> 16420, payload_length |-> 6,
                network_id |-> network_id, channel_id |-> channel_id,
                data |-> 2560, checksum |-> 0]
    IN  [req EXCEPT !.checksum = SamplesRequest_calculate_checksum(req)]

SamplesRequest_as_bytes(m) ==
    write_u8(m.header) \o write_u16_BE(m.command) \o write_u8(m.payload_length)
        \o write_u16_BE(m.network_id) \o write_u16_BE(m.channel_id)
        \o write_u16_BE(m.data) \o write_u8(m.checksum)

SamplesRequest_read(input) ==
    IF Len(input) < 10 THEN Incomplete(27)
    ELSE LET network_id == u16_from_be_bytes(<<At(input, 3), At(input, 4)>>)
             channel_id == u16_from_be_bytes(<<At(input, 5), At(input, 6)>>)
         IN  Ok(input, [SamplesRequest_new(network_id, channel_id) EXCEPT
                !.header = At(input, 0),
                !.command = u16_from_be_bytes(<<At(input, 1), At(input, 2)>>),
                !.payload_length = At(input, 3),
                !.data = u16_from_be_bytes(<<At(input, 7), At(input, 8)>>),
                !.checksum = At(input, 9)])

ScheduleRequest_calculate_checksum(m) ==
    XorFold(write_u16_BE(m.command) \o write_u8(m.payload_length)
            \o write_u16_BE(m.network_id) \o write_u16_BE(m.channel_id)
            \o m.schedule)

\* vec![0x00, 56] is the two-element vector [0, 56]
ScheduleRequest_new(network_id, channel_id) ==
    LET req == [header |-> 2, command |-> 16419, payload_length |-> 59,
                network_id |-> network_id, channel_id |-> channel_id,
                schedule |-> <<0, 56>>, checksum |-> 0]
    IN  [req EXCEPT !.checksum = ScheduleRequest_calculate_checksum(req)]

ScheduleRequest_as_bytes(m) ==
    write_u8(m.header) \o write_u16_BE(m.command) \o write_u8(m.payload_length)
        \o write_u16_BE(m.network_id) \o write_u16_BE(m.channel_id)
        \o m.schedule \o write_u8(m.checksum)

\* bitmap[i] = v on a Vec: an index at or past the length panics
VecIndexSet(vec, i, v) ==
    IF i < Len(vec) THEN [panic |-> FALSE, vec |-> [vec EXCEPT ![i + 1] = v]]
    ELSE [panic |-> TRUE, vec |-> vec]

\* vec![0x7f, 56] is the two-element vector [0x7f, 56]; bitmap[5] = 0x25
ScheduleRequest_always_on(m) ==
    LET bitmap == VecIndexSet(<<127, 56>>, 5, 37)
    IN  [panic |-> bitmap.panic,
         req |-> IF bitmap.panic THEN m ELSE [m EXCEPT !.schedule = bitmap.vec]]

ScheduleRequest_always_off(m) ==
    LET bitmap == VecIndexSet(<<127, 56>>, 5, 165)
    IN  [panic |-> bitmap.panic,
         req |-> IF bitmap.panic THEN m ELSE [m EXCEPT !.schedule = bitmap.vec]]

ScheduleRequest_read(input) ==
    IF Len(input) < 65 THEN Incomplete(65)
    ELSE LET network_id == u16_from_be_bytes(<<At(input, 4), At(input, 5)>>)
             channel_id == u16_from_be_bytes(<<At(input, 6), At(input, 7)>>)
         IN  Ok(input, [ScheduleRequest_new(network_id, channel_id) EXCEPT
                !.header = At(input, 0),
                !.command = u16_from_be_bytes(<<At(input, 1), At(input, 2)>>),
                !.payload_length = At(input, 3),
                !.schedule = Slice(input, 8, 64),
                !.checksum = At(input, 64)])

(***************************************************************************)
(* messages/responses.rs                                                    *)
(***************************************************************************)
BootResponse_calculate_checksum(m) ==
    XorFold(write_u16_BE(m.command) \o write_u8(m.payload_length) \o m.data
            \o write_u64_BE(m.device_id) \o write_u16_BE(m.data2))

BootResponse_new(data, device_id, data2) ==
    LET resp == [header |-> 2, command |-> 16516, payload_length |-> 22,
                 data |-> data, device_id |-> device_id, data2 |-> data2,
                 checksum |-> 0]
    IN  [resp EXCEPT !.checksum = BootResponse_calculate_checksum(resp)]

BootResponse_as_bytes(m) ==
    write_u8(m.header) \o write_u16_BE(m.command) \o write_u8(m.payload_length)
        \o m.data \o write_u64_BE(m.device_id) \o write_u16_BE(m.data2)
        \o write_u8(m.checksum)

BootResponse_read(input) ==
    IF Len(input) < 27 THEN Incomplete(27)
    ELSE LET data == Slice(input, 4, 16)
             device_id == u64_from_be_bytes(Slice(input, 16, 24))
             data2 == u16_from_be_bytes(<<At(input, 24), At(input, 25)>>)
         IN  Ok(input, [BootResponse_new(data, device_id, data2) EXCEPT
                !.header = At(input, 0),
                !.command = u16_from_be_bytes(<<At(input, 1), At(input, 2)>>),
                !.payload_length = At(input, 3),
                !.checksum = At(input, 26)])

BootConfirmResponse_calculate_checksum(m) ==
    XorFold(write_u16_BE(m.command) \o write_u8(m.payload_length) \o write_u8(m.data))

BootConfirmResponse_new ==
    LET resp == [header |-> 2, command |-> 16512, payload_length |-> 1,
                 data |-> 16, checksum |-> 0]
    IN  [resp EXCEPT !.checksum = BootConfirmResponse_calculate_checksum(resp)]

BootConfirmResponse_as_bytes(m) ==
    write_u8(m.header) \o write_u16_BE(m.command) \o write_u8(m.payload_length)
        \o write_u8(m.data) \o write_u8(m.checksum)

BootConfirmResponse_read(input) ==
    IF Len(input) < 6 THEN Incomplete(6)
    ELSE Ok(input, [BootConfirmResponse_new EXCEPT
                !.header = At(input, 0),
                !.command = u16_from_be_bytes(<<At(input, 1), At(input, 2)>>),
                !.payload_length = At(input, 3),
                !.data = At(input, 4),
                !.checksum = At(input, 5)])

BroadcastResponse_calculate_checksum(m) ==
    XorFold(write_u16_BE(m.command) \o write_u8(m.payload_length)
            \o write_u16_BE(m.network_id) \o write_u64_BE(m.device_id)
            \o write_u8(m.data))

BroadcastResponse_new(network_id, device_id, data) ==
    LET resp == [header |-> 2, command |-> 40979, payload_length |-> 11,
                 network_id |-> network_id, device_id |-> device_id,
                 data |-> data, checksum |-> 0]
    IN  [resp EXCEPT !.checksum = BroadcastResponse_calculate_checksum(resp)]

BroadcastResponse_as_bytes(m) ==
    write_u8(m.header) \o write_u16_BE(m.command) \o write_u8(m.payload_length)
        \o write_u16_BE(m.network_id) \o write_u64_BE(m.device_id)
        \o write_u8(m.data) \o write_u8(m.checksum)

BroadcastResponse_read(input) ==
    IF Len(input) < 16 THEN Incomplete(16)
    ELSE LET network_id == u16_from_be_bytes(<<At(input, 4), At(input, 5)>>)
             device_id == u64_from_be_bytes(Slice(input, 6, 14))
             data == At(input, 14)
         IN  Ok(input, [BroadcastResponse_new(network_id, device_id, data) EXCEPT
                !.header = At(input, 0),
                !.command = u16_from_be_bytes(<<At(input, 1), At(input, 2)>>),
                !.payload_length = At(input, 3),
                !.checksum = At(input, 15)])

LockResponse_calculate_checksum(m) ==
    XorFold(write_u16_BE(m.command) \o write_u8(m.payload_length) \o write_u8(m.data))

LockResponse_new ==
    LET resp == [header |-> 2, command |-> 41209, payload_length |-> 1,
                 data |-> 0, checksum |-> 0]
    IN  [resp EXCEPT !.checksum = LockResponse_calculate_checksum(resp)]

LockResponse_as_bytes(m) ==
    write_u8(m.header) \o write_u16_BE(m.command) \o write_u8(m.payload_length)
        \o write_u8(m.data) \o write_u8(m.checksum)

LockResponse_read(input) ==
    IF Len(input) < 6 THEN Incomplete(6)
    ELSE Ok(input, [LockResponse_new EXCEPT
                !.header = At(input, 0),
                !.command = u16_from_be_bytes(<<At(input, 1), At(input, 2)>>),
                !.payload_length = At(input, 3),
                !.data = At(input, 4),
                !.checksum = At(input, 5)])

UpdateTimeAckResponse_calculate_checksum(m) ==
    XorFold(write_u16_BE(m.command) \o write_u8(m.payload_length) \o write_u8(m.data))

UpdateTimeAckResponse_new ==
    LET resp == [header |-> 2, command |-> 16418, payload_length |-> 1,
                 data |-> 0, checksum |-> 0]
    IN  [resp EXCEPT !.checksum = UpdateTimeAckResponse_calculate_checksum(resp)]

UpdateTimeAckResponse_as_bytes(m) ==
    write_u8(m.header) \o write_u16_BE(m.command) \o write_u8(m.payload_length)
        \o write_u8(m.data) \o write_u8(m.checksum)

UpdateTimeAckResponse_read(input) ==
    IF Len(input) < 6 THEN Incomplete(6)
    ELSE Ok(input, [UpdateTimeAckResponse_new EXCEPT
                !.header = At(input, 0),
                !.command = u16_from_be_bytes(<<At(input, 1), At(input, 2)>>),
                !.payload_length = At(input, 3),
                !.data = At(input, 4),
                !.checksum = At(input, 5)])

UpdateTimeResponse_calculate_checksum(m) ==
    XorFold(write_u16_BE(m.command) \o write_u8(m.payload_length)
            \o write_u16_BE(m.network_id) \o write_u8(m.data))

UpdateTimeResponse_new(network_id) ==
    LET resp == [header |-> 2, command |-> 16546, payload_length |-> 3,
                 network_id |-> network_id, data |-> 0, checksum |-> 0]
    IN  [resp EXCEPT !.checksum = UpdateTimeResponse_calculate_checksum(resp)]

UpdateTimeResponse_as_bytes(m) ==
    write_u8(m.header) \o write_u16_BE(m.command) \o write_u8(m.payload_length)
        \o write_u16_BE(m.network_id) \o write_u8(m.data) \o write_u8(m.checksum)

UpdateTimeResponse_read(input) ==
    IF Len(input) < 8 THEN Incomplete(8)
    ELSE LET network_id == u16_from_be_bytes(<<At(input, 4), At(input, 5)>>)
         IN  Ok(input, [UpdateTimeResponse_new(network_id) EXCEPT
                !.header = At(input, 0),
                !.command = u16_from_be_bytes(<<At(input, 1), At(input, 2)>>),
                !.payload_length = At(input, 3),
                !.data = At(input, 6),
                !.checksum = At(input, 7)])

HandshakeResponse_calculate_checksum(m) ==
    XorFold(write_u16_BE(m.command) \o write_u8(m.payload_length) \o write_u8(m.data))

HandshakeResponse_new ==
    LET resp == [header |-> 2, command |-> 16387, payload_length |-> 1,
                 data |-> 0, checksum |-> 0]
    IN  [resp EXCEPT !.checksum = HandshakeResponse_calculate_checksum(resp)]

HandshakeResponse_as_bytes(m) ==
    write_u8(m.header) \o write_u16_BE(m.command) \o write_u8(m.payload_length)
        \o write_u8(m.data) \o write_u8(m.checksum)

HandshakeResponse_read(input) ==
    IF Len(input) < 6 THEN Incomplete(6)
    ELSE Ok(input, [HandshakeResponse_new EXCEPT
                !.header = At(input, 0),
                !.command = u16_from_be_bytes(<<At(input, 1), At(input, 2)>>),
                !.payload_length = At(input, 3),
                !.data = At(input, 4),
                !.checksum = At(input, 5)])

AckResponse_calculate_checksum(m) ==
    XorFold(write_u16_BE(m.command) \o write_u8(m.payload_length) \o write_u8(m.data))

AckResponse_new ==
    LET resp == [header |-> 2, command |-> 16420, payload_length |-> 1,
                 data |-> 0, checksum |-> 0]
    IN  [resp EXCEPT !.checksum = AckResponse_calculate_checksum(resp)]

AckResponse_as_bytes(m) ==
    write_u8(m.header) \o write_u16_BE(m.command) \o write_u8(m.payload_length)
        \o write_u8(m.data) \o write_u8(m.checksum)

AckResponse_read(input) ==
    IF Len(input) < 6 THEN Incomplete(6)
    ELSE Ok(input, [AckResponse_new EXCEPT
                !.header = At(input, 0),
                !.command = u16_from_be_bytes(<<At(input, 1), At(input, 2)>>),
                !.payload_length = At(input, 3),
                !.data = At(input, 4),
                !.checksum = At(input, 5)])

\* the three low bytes of stored_sample_count, least significant first
StoredCountBytes(v) == <<v[2] % 256, (v[2] \div 256) % 256, v[1] % 256>>

RECURSIVE SamplesBytes(_)
SamplesBytes(samples) ==
    IF samples = <<>> THEN <<>>
    ELSE write_u16_LE(Head(samples)) \o SamplesBytes(Tail(samples))

SamplesResponse_calculate_checksum(m) ==
    XorFold(write_u16_BE(m.command) \o write_u8(m.payload_length)
            \o write_u16_BE(m.network_id) \o write_u16_BE(m.channel_id)
            \o write_u16_BE(m.data) \o write_u32_LE(m.time)
            \o write_u8(m.sample_count) \o StoredCountBytes(m.stored_sample_count)
            \o SamplesBytes(m.samples))

SamplesResponse_new(payload_length, network_id, channel_id, data, sample_count, time, stored_sample_count, samples) ==
    LET req == [header |-> 2, command |-> 16548, payload_length |-> payload_length,
                network_id |-> network_id, channel_id |-> channel_id,
                data |-> data, time |-> time, sample_count |-> sample_count,
                stored_sample_count |-> stored_sample_count,
                samples |-> samples, checksum |-> 0]
    IN  [req EXCEPT !.checksum = SamplesResponse_calculate_checksum(req)]

SamplesResponse_as_bytes(m) ==
    write_u8(m.header) \o write_u16_BE(m.command) \o write_u8(m.payload_length)
        \o write_u16_BE(m.network_id) \o write_u16_BE(m.channel_id)
        \o write_u16_BE(m.data) \o write_u32_LE(m.time)
        \o write_u8(m.sample_count) \o StoredCountBytes(m.stored_sample_count)
        \o SamplesBytes(m.samples) \o write_u8(m.checksum)

\* a decoder that stops after the first sample word; C12 tells it from read
ReadSamples_first_only(input, i, end) ==
    IF i >= end THEN <<>>
    ELSE <<u16_from_le_bytes(<<At(input, i), At(input, i + 1)>>)>>

\* for i in (start..end).step_by(2): u16::from_le_bytes([input[i], input[i + 1]])
RECURSIVE ReadSamples(_, _, _)
ReadSamples(input, i, end) ==
    IF i >= end THEN <<>>
    ELSE <<u16_from_le_bytes(<<At(input, i), At(input, i + 1)>>)>>
            \o ReadSamples(input, i + 2, end)

SamplesResponse_read(input) ==
    IF Len(input) < 18 THEN Incomplete(18)
    ELSE LET payload_length == At(input, 3)
             network_id == u16_from_be_bytes(<<At(input, 4), At(input, 5)>>)
             channel_id == u16_from_be_bytes(<<At(input, 6), At(input, 7)>>)
             data == u16_from_be_bytes(<<At(input, 8), At(input, 9)>>)
             time == u32_from_le_bytes(<<At(input, 10), At(input, 11),
                                         At(input, 12), At(input, 13)>>)
             sample_count == At(input, 14)
             stored_sample_count ==
                 u32_from_le_bytes(<<0, At(input, 15), At(input, 16), At(input, 17)>>)
             sample_bytes_start == 18
             sample_bytes_end == sample_bytes_start + sample_count * 2
         IN  IF Len(input) < sample_bytes_end + 1
             THEN Incomplete(sample_bytes_end + 1)
             ELSE LET samples == ReadSamples(input, sample_bytes_start, sample_bytes_end)
                  IN  Ok(input, [SamplesResponse_new(payload_length, network_id,
                                     channel_id, data, sample_count, time,
                                     stored_sample_count, samples) EXCEPT
                         !.header = At(input, 0),
                         !.command = u16_from_be_bytes(<<At(input, 1), At(input, 2)>>),
                         !.checksum = At(input, sample_bytes_end)])

ScheduleResponse_calculate_checksum(m) ==
    XorFold(write_u16_BE(m.command) \o write_u8(m.payload_length) \o write_u8(m.data))

ScheduleResponse_new ==
    LET resp == [header |-> 2, command |-> 16419, payload_length |-> 1,
                 data |-> 0, checksum |-> 0]
    IN  [resp EXCEPT !.checksum = ScheduleResponse_calculate_checksum(resp)]

ScheduleResponse_as_bytes(m) ==
    write_u8(m.header) \o write_u16_BE(m.command) \o write_u8(m.payload_length)
        \o write_u8(m.data) \o write_u8(m.checksum)

ScheduleResponse_read(input) ==
    IF Len(input) < 6 THEN Incomplete(6)
    ELSE Ok(input, [ScheduleResponse_new EXCEPT
                !.header = At(input, 0),
                !.command = u16_from_be_bytes(<<At(input, 1), At(input, 2)>>),
                !.payload_length = At(input, 3),
                !.data = At(input, 4),
                !.checksum = At(input, 5)])

(***************************************************************************)
(* command.rs: the CLI arguments, as the strings argh hands over            *)
(***************************************************************************)
HexDigits == <<"0", "1", "2", "3", "4", "5", "6", "7", "8", "9",
               "a", "b", "c", "d", "e", "f">>

DecDigits == <<"0", "1", "2", "3", "4", "5", "6", "7", "8", "9">>

DigitValue(digits, c) == CHOOSE k \in 0..(Len(digits) - 1) : digits[k + 1] = c

RECURSIVE ParseDigits(_, _, _, _)
ParseDigits(str, digits, radix, acc) ==
    IF str = <<>> THEN [ok |-> TRUE, value |-> acc]
    ELSE IF \A k \in 1..Len(digits) : digits[k] # Head(str)
         THEN [ok |-> FALSE, value |-> 0]
         ELSE LET v == acc * radix + DigitValue(digits, Head(str))
              IN  IF v > 65535 THEN [ok |-> FALSE, value |-> 0]
                  ELSE ParseDigits(Tail(str), digits, radix, v)

\* u16::from_str_radix(&network[2..], 16).unwrap(): the slice panics on a string
\* shorter than 2, the parse fails on an empty or non-hexadecimal rest
from_str_radix(network) ==
    IF Len(network) < 3 THEN [ok |-> FALSE, value |-> 0]
    ELSE ParseDigits(SubSeq(network, 3, Len(network)), HexDigits, 16, 0)

\* socket.parse::<u16>().unwrap()
parse_u16(socket) ==
    IF socket = <<>> THEN [ok |-> FALSE, value |-> 0]
    ELSE ParseDigits(socket, DecDigits, 10, 0)

NetworkArgs == {<<"0", "x", "0", "0", "1", "0">>, <<"0", "x", "1", "2", "3", "4">>,
                <<"0", "x", "z", "z">>}

SocketArgs == {<<"1">>, <<"0">>, <<"x">>}

CliArgs ==
    [command : {"on", "off", "read"}, network : NetworkArgs, socket : SocketArgs]
        \cup {[command |-> "commission", network |-> <<>>, socket |-> <<>>]}

(***************************************************************************)
(* The device behind the transport: what it puts on the wire                *)
(***************************************************************************)
MaxSamples == 2

MaxAnnounce == 2

NetworkIds == {16, 4660}

ChannelIds == {0, 1}

SampleWords == {808, 1066}

StoredCounts == {<<0, 5>>, <<1, 515>>}

DeviceId == <<258, 772, 1286, 1800>>

SampleTime == <<258, 772>>

EpochSeconds == {<<25000, 4660>>}

LastByteFlipped(f) == [f EXCEPT ![Len(f)] = Xor8(f[Len(f)], 1)]

\* the same frame under another command code, its checksum still valid
OtherCommand(f) == [f EXCEPT ![3] = Xor8(f[3], 1), ![Len(f)] = Xor8(f[Len(f)], 1)]

\* what the device may answer where the frame f is expected: f, f with a wrong
\* checksum, a frame of another command, a frame cut short, nothing
ReplyVariants(f) == {f, LastByteFlipped(f), OtherCommand(f), SubSeq(f, 1, 3), <<>>}

BootReply ==
    BootResponse_as_bytes(
        BootResponse_new(<<0, 1, 2, 3, 4, 5, 6, 7, 8, 9, 10, 11>>, DeviceId, 513))

\* Samples responses whose payload_length covers their samples
ValidSamples(network_id, channel_id) ==
    UNION {{SamplesResponse_new(14 + 2 * k, network_id, channel_id, 2560, k,
                                SampleTime, s, w) :
                s \in StoredCounts, w \in [1..k -> SampleWords]} :
           k \in 0..MaxSamples}

\* Samples responses that declare the payload of an empty response
ShortSamples(network_id, channel_id) ==
    UNION {{SamplesResponse_new(14, network_id, channel_id, 2560, k, SampleTime, s, w) :
                s \in StoredCounts, w \in [1..k -> SampleWords]} :
           k \in 1..MaxSamples}

DeviceSamples(network_id, channel_id) ==
    ValidSamples(network_id, channel_id) \cup ShortSamples(network_id, channel_id)

BroadcastFrame(n) == BroadcastResponse_as_bytes(BroadcastResponse_new(n, DeviceId, 1))

BroadcastFrames == {BroadcastFrame(n) : n \in NetworkIds}

\* unsolicited frames during discovery: a Broadcast, a Lock response (command
\* 0xA0F9), a Samples ack (command 0x4024), or the first bytes of a Broadcast
AnnounceFrames ==
    BroadcastFrames
        \cup {LockResponse_as_bytes(LockResponse_new),
              AckResponse_as_bytes(AckResponse_new)}
        \cup {SubSeq(f, 1, 5) : f \in BroadcastFrames}

(***************************************************************************)
(* State                                                                    *)
(***************************************************************************)
VARIABLES
    args,            \* command.rs: the Hacklet arguments
    pc,              \* where the invocation is
    context,         \* serial_connection.rs: the FTDI context: "none", "open", "closed"
    receive_buffer,  \* SerialConnection.receive_buffer
    wire,            \* bytes the device has sent and ftdi_read_data has not yet returned
    tx,              \* every frame handed to ftdi_write_data, in order
    rxlog,           \* the sizes receive has returned since the last transmit
    calls,           \* the Dongle methods entered, in order, with their caller
    network_id,      \* command.rs: the parsed network id
    socket_id,       \* command.rs: the parsed socket id
    buffer,          \* dongle.rs: the local `buffer` of commission and request_samples
    response,        \* dongle.rs: commission's Option<BroadcastResponse>
    elapsed,         \* dongle.rs: start_time.elapsed(), in seconds, capped at Timeout
    announced,       \* unsolicited frames the device has sent during discovery
    broadcast_sent,  \* whether one of them was a complete Broadcast frame
    sent,            \* the Samples response the device encoded
    samples,         \* what request_samples returned
    codec,           \* a message under encode and decode (CodecSpec)
    delivered,       \* the bytes ftdi_read_data has returned, in order, less those
                     \* receive had returned by the last transmit
    returned         \* the bytes receive has returned since the last transmit

vars == <<args, pc, context, receive_buffer, wire, tx, rxlog, calls, network_id, socket_id, buffer, response, elapsed, announced, broadcast_sent, sent, samples, codec, delivered, returned>>

\* Duration::from_secs(30)
Timeout == 30

\* let mut buf = [0u8; 64]
ReadSize == 64

None == [some |-> FALSE, val |-> <<>>]

Some(v) == [some |-> TRUE, val |-> v]

Min(a, b) == IF a < b THEN a ELSE b

CodecIdle == [phase |-> "idle", kind |-> "", msg |-> <<>>, frame |-> <<>>,
              corrupted |-> FALSE, result |-> Incomplete(0)]

Init ==
    /\ args \in CliArgs
    /\ pc = "start"
    /\ context = "none"
    /\ receive_buffer = <<>>
    /\ wire = <<>>
    /\ tx = <<>>
    /\ rxlog = <<>>
    /\ calls = <<>>
    /\ network_id = 0
    /\ socket_id = 0
    /\ buffer = <<>>
    /\ response = None
    /\ elapsed = 0
    /\ announced = 0
    /\ broadcast_sent = FALSE
    /\ sent = None
    /\ samples = None
    /\ codec = CodecIdle
    /\ delivered = <<>>
    /\ returned = <<>>

(***************************************************************************)
(* serial_connection.rs                                                     *)
(***************************************************************************)
\* SerialConnection::new: ftdi_usb_open fails (panic) or the context is open
SerialConnection_new ==
    /\ pc = "start"
    /\ \E opened \in BOOLEAN :
         IF opened THEN context' = "open" /\ pc' = "boot"
         ELSE context' = "none" /\ pc' = "panicked"
    /\ UNCHANGED <<args, receive_buffer, wire, tx, rxlog, calls, network_id,
                 socket_id, buffer, response, elapsed, announced,
                 broadcast_sent, sent, samples, codec, delivered, returned>>

\* SerialConnection::transmit(command), and the device's answer put on the wire;
\* the record of the stream starts again from the bytes not yet returned
transmit(command, reply) ==
    /\ tx' = Append(tx, command)
    /\ wire' = wire \o reply
    /\ rxlog' = <<>>
    /\ delivered' = SubSeq(delivered, Len(returned) + 1, Len(delivered))
    /\ returned' = <<>>

\* an update_time that asks only 6 bytes of its 8-byte response; the
\* one-in-flight property C18 tells it from update_time
RxBytes_short_update ==
    CASE pc = "boot_rx" -> 27
      [] pc \in {"boot_confirm_rx", "lock_rx", "unlock_rx", "select_rx", "switch_rx",
                 "samples_ack_rx", "update_ack_rx", "update_resp_rx"} -> 6
      [] pc \in {"samples_hdr_rx", "disc_hdr_rx"} -> 4
      [] pc \in {"samples_body_rx", "disc_body_rx"} -> At(buffer, 3) + 1
      [] OTHER -> 0

\* a request_samples that reads the declared length without the checksum byte;
\* the sequence property C24 tells it from request_samples
RxBytes_without_checksum ==
    CASE pc = "boot_rx" -> 27
      [] pc \in {"boot_confirm_rx", "lock_rx", "unlock_rx", "select_rx", "switch_rx",
                 "samples_ack_rx", "update_ack_rx"} -> 6
      [] pc = "update_resp_rx" -> 8
      [] pc \in {"samples_hdr_rx", "disc_hdr_rx"} -> 4
      [] pc = "samples_body_rx" -> At(buffer, 3)
      [] pc = "disc_body_rx" -> At(buffer, 3) + 1
      [] OTHER -> 0

\* how many bytes the pending receive(bytes) call asks for
RxBytes ==
    CASE pc = "boot_rx" -> 27
      [] pc \in {"boot_confirm_rx", "lock_rx", "unlock_rx", "select_rx", "switch_rx",
                 "samples_ack_rx", "update_ack_rx"} -> 6
      [] pc = "update_resp_rx" -> 8
      [] pc \in {"samples_hdr_rx", "disc_hdr_rx"} -> 4
      [] pc \in {"samples_body_rx", "disc_body_rx"} -> At(buffer, 3) + 1
      [] OTHER -> 0

RxPcs == {"boot_rx", "boot_confirm_rx", "lock_rx", "unlock_rx", "select_rx",
          "switch_rx", "samples_ack_rx", "samples_hdr_rx", "samples_body_rx",
          "update_ack_rx", "update_resp_rx", "disc_hdr_rx", "disc_body_rx"}

\* the while loop of commission
DiscoveryPcs == {"commission_loop", "disc_hdr_rx", "disc_body_rx", "disc_frame"}

\* a receive that keeps of each chunk only what the pending request still
\* needs; the stream property C29 tells it from receive
receive_poll_drops_excess ==
    /\ pc \in RxPcs
    /\ Len(receive_buffer) < RxBytes
    /\ \E chunk \in 0..Min(ReadSize, Len(wire)) :
         /\ receive_buffer' = receive_buffer
                \o SubSeq(wire, 1, Min(chunk, RxBytes - Len(receive_buffer)))
         /\ delivered' = delivered \o SubSeq(wire, 1, chunk)
         /\ wire' = SubSeq(wire, chunk + 1, Len(wire))
    /\ UNCHANGED <<args, pc, context, tx, rxlog, calls, network_id, socket_id,
                 buffer, response, elapsed, announced, broadcast_sent, sent,
                 samples, codec, returned>>

\* one pass of receive's loop with too few bytes buffered: ftdi_read_data returns
\* a chunk of up to 64 bytes, or nothing and the loop sleeps
receive_poll ==
    /\ pc \in RxPcs
    /\ Len(receive_buffer) < RxBytes
    /\ \E chunk \in 0..Min(ReadSize, Len(wire)) :
         /\ receive_buffer' = receive_buffer \o SubSeq(wire, 1, chunk)
         /\ delivered' = delivered \o SubSeq(wire, 1, chunk)
         /\ wire' = SubSeq(wire, chunk + 1, Len(wire))
    /\ UNCHANGED <<args, pc, context, tx, rxlog, calls, network_id, socket_id,
                 buffer, response, elapsed, announced, broadcast_sent, sent,
                 samples, codec, returned>>

\* a callback that asks for samples without selecting the network first; the
\* ordering property C7 tells it from command()
AfterReceive_unselected ==
    CASE pc = "boot_rx" -> "boot_confirm"
      [] pc = "boot_confirm_rx" -> "callback"
      [] pc = "lock_rx" -> IF args.command = "commission" THEN "done"
                           ELSE IF args.command = "read" THEN "request_samples"
                           ELSE "select_network"
      [] pc = "unlock_rx" -> "commission_loop"
      [] pc = "select_rx" -> IF args.command = "read" THEN "request_samples" ELSE "switch"
      [] pc = "switch_rx" -> "done"
      [] pc = "samples_ack_rx" -> "samples_hdr_rx"
      [] pc = "samples_hdr_rx" -> "samples_body_rx"
      [] pc = "samples_body_rx" -> "samples_decode"
      [] pc = "update_ack_rx" -> "update_resp_rx"
      [] pc = "update_resp_rx" -> "lock_network"
      [] pc = "disc_hdr_rx" -> "disc_body_rx"
      [] pc = "disc_body_rx" -> "disc_frame"
      [] OTHER -> pc

\* a select_network that sends its request again when the answer is not the
\* Handshake response; the no-retry property C25 tells it from select_network
AfterReceive_retry ==
    CASE pc = "boot_rx" -> "boot_confirm"
      [] pc = "boot_confirm_rx" -> "callback"
      [] pc = "lock_rx" -> IF args.command = "commission" THEN "done" ELSE "select_network"
      [] pc = "unlock_rx" -> "commission_loop"
      [] pc = "select_rx" ->
            IF SubSeq(receive_buffer, 1, 6) # HandshakeResponse_as_bytes(HandshakeResponse_new)
            THEN "select_network"
            ELSE IF args.command = "read" THEN "request_samples" ELSE "switch"
      [] pc = "switch_rx" -> "done"
      [] pc = "samples_ack_rx" -> "samples_hdr_rx"
      [] pc = "samples_hdr_rx" -> "samples_body_rx"
      [] pc = "samples_body_rx" -> "samples_decode"
      [] pc = "update_ack_rx" -> "update_resp_rx"
      [] pc = "update_resp_rx" -> "lock_network"
      [] pc = "disc_hdr_rx" -> "disc_body_rx"
      [] pc = "disc_body_rx" -> "disc_frame"
      [] OTHER -> pc

\* where the caller goes on once receive has returned
AfterReceive ==
    CASE pc = "boot_rx" -> "boot_confirm"
      [] pc = "boot_confirm_rx" -> "callback"
      [] pc = "lock_rx" -> IF args.command = "commission" THEN "done" ELSE "select_network"
      [] pc = "unlock_rx" -> "commission_loop"
      [] pc = "select_rx" -> IF args.command = "read" THEN "request_samples" ELSE "switch"
      [] pc = "switch_rx" -> "done"
      [] pc = "samples_ack_rx" -> "samples_hdr_rx"
      [] pc = "samples_hdr_rx" -> "samples_body_rx"
      [] pc = "samples_body_rx" -> "samples_decode"
      [] pc = "update_ack_rx" -> "update_resp_rx"
      [] pc = "update_resp_rx" -> "lock_network"
      [] pc = "disc_hdr_rx" -> "disc_body_rx"
      [] pc = "disc_body_rx" -> "disc_frame"
      [] OTHER -> pc

\* a receive that returns as soon as anything is buffered, with at most `bytes`
\* bytes; the property C19 tells it from receive
receive_return_early ==
    /\ pc \in RxPcs
    /\ Len(receive_buffer) >= 1
    /\ LET n == Min(RxBytes, Len(receive_buffer))
           rx == SubSeq(receive_buffer, 1, n)
       IN  /\ receive_buffer' = SubSeq(receive_buffer, n + 1, Len(receive_buffer))
           /\ buffer' = CASE pc \in {"samples_hdr_rx", "disc_hdr_rx"} -> rx
                          [] pc \in {"samples_body_rx", "disc_body_rx"} -> buffer \o rx
                          [] OTHER -> buffer
           /\ returned' = returned \o rx
           /\ rxlog' = Append(rxlog, n)
    /\ pc' = AfterReceive
    /\ UNCHANGED <<args, context, wire, tx, calls, network_id, socket_id, response,
                 elapsed, announced, broadcast_sent, sent, samples, codec,
                 delivered>>

\* receive returns: the first `bytes` bytes are drained from receive_buffer; the
\* callers that keep them put them in `buffer`, the others decode and drop them
receive_return ==
    /\ pc \in RxPcs
    /\ Len(receive_buffer) >= RxBytes
    /\ LET rx == SubSeq(receive_buffer, 1, RxBytes)
       IN  /\ receive_buffer' = SubSeq(receive_buffer, RxBytes + 1, Len(receive_buffer))
           /\ buffer' = CASE pc \in {"samples_hdr_rx", "disc_hdr_rx"} -> rx
                          [] pc \in {"samples_body_rx", "disc_body_rx"} -> buffer \o rx
                          [] OTHER -> buffer
           /\ returned' = returned \o rx
    /\ rxlog' = Append(rxlog, RxBytes)
    /\ pc' = AfterReceive
    /\ UNCHANGED <<args, context, wire, tx, calls, network_id, socket_id, response,
                 elapsed, announced, broadcast_sent, sent, samples, codec,
                 delivered>>

(***************************************************************************)
(* dongle.rs                                                                *)
(***************************************************************************)
Call(op, network, socket, state) ==
    [op |-> op, network |-> network, socket |-> socket, state |-> state,
     by |-> IF args.command = "commission" /\ op # "commission"
            THEN "commission" ELSE "command"]

boot ==
    /\ pc = "boot"
    /\ \E reply \in ReplyVariants(BootReply) :
         transmit(BootRequest_as_bytes(BootRequest_new), reply)
    /\ pc' = "boot_rx"
    /\ UNCHANGED <<args, context, receive_buffer, calls, network_id, socket_id,
                 buffer, response, elapsed, announced, broadcast_sent, sent,
                 samples, codec>>

boot_confirm ==
    /\ pc = "boot_confirm"
    /\ \E reply \in ReplyVariants(BootConfirmResponse_as_bytes(BootConfirmResponse_new)) :
         transmit(BootConfirmRequest_as_bytes(BootConfirmRequest_new), reply)
    /\ pc' = "boot_confirm_rx"
    /\ UNCHANGED <<args, context, receive_buffer, calls, network_id, socket_id,
                 buffer, response, elapsed, announced, broadcast_sent, sent,
                 samples, codec>>

lock_network ==
    /\ pc = "lock_network"
    /\ calls' = Append(calls, Call("lock_network", 0, 0, FALSE))
    /\ \E reply \in ReplyVariants(LockResponse_as_bytes(LockResponse_new)) :
         transmit(LockRequest_as_bytes(LockRequest_new), reply)
    /\ pc' = "lock_rx"
    /\ UNCHANGED <<args, context, receive_buffer, network_id, socket_id, buffer,
                 response, elapsed, announced, broadcast_sent, sent, samples,
                 codec>>

unlock_network ==
    /\ pc = "unlock_network"
    /\ calls' = Append(calls, Call("unlock_network", 0, 0, FALSE))
    /\ \E reply \in ReplyVariants(LockResponse_as_bytes(LockResponse_new)) :
         transmit(UnlockRequest_as_bytes(UnlockRequest_new), reply)
    /\ pc' = "unlock_rx"
    /\ UNCHANGED <<args, context, receive_buffer, network_id, socket_id, buffer,
                 response, elapsed, announced, broadcast_sent, sent, samples,
                 codec>>

select_network ==
    /\ pc = "select_network"
    /\ calls' = Append(calls, Call("select_network", network_id, 0, FALSE))
    /\ \E reply \in ReplyVariants(HandshakeResponse_as_bytes(HandshakeResponse_new)) :
         transmit(HandshakeRequest_as_bytes(HandshakeRequest_new(network_id)), reply)
    /\ pc' = "select_rx"
    /\ UNCHANGED <<args, context, receive_buffer, network_id, socket_id, buffer,
                 response, elapsed, announced, broadcast_sent, sent, samples,
                 codec>>

\* switch: always_on / always_off panic, before anything is transmitted, when
\* their bitmap index is out of range
switch ==
    /\ pc = "switch"
    /\ calls' = Append(calls, Call("switch", network_id, socket_id, args.command = "on"))
    /\ LET request == ScheduleRequest_new(network_id, socket_id)
           set == IF args.command = "on" THEN ScheduleRequest_always_on(request)
                  ELSE ScheduleRequest_always_off(request)
       IN  IF set.panic
           THEN pc' = "panicked" /\ UNCHANGED <<tx, wire, rxlog, delivered, returned>>
           ELSE /\ \E reply \in
                       ReplyVariants(ScheduleResponse_as_bytes(ScheduleResponse_new)) :
                     transmit(ScheduleRequest_as_bytes(set.req), reply)
                /\ pc' = "switch_rx"
    /\ UNCHANGED <<args, context, receive_buffer, network_id, socket_id, buffer,
                 response, elapsed, announced, broadcast_sent, sent, samples,
                 codec>>

\* request_samples up to its first receive; the device answers with an ack and
\* then a Samples response, or with less
request_samples ==
    /\ pc = "request_samples"
    /\ calls' = Append(calls, Call("request_samples", network_id, socket_id, FALSE))
    /\ \E ack \in ReplyVariants(AckResponse_as_bytes(AckResponse_new)) :
         \/ /\ transmit(SamplesRequest_as_bytes(SamplesRequest_new(network_id, socket_id)),
                        ack)
            /\ sent' = None
         \/ /\ Len(ack) = 6
            /\ \E m \in DeviceSamples(network_id, socket_id) :
                 /\ transmit(SamplesRequest_as_bytes(
                                 SamplesRequest_new(network_id, socket_id)),
                             ack \o SamplesResponse_as_bytes(m))
                 /\ sent' = Some(m)
    /\ pc' = "samples_ack_rx"
    /\ UNCHANGED <<args, context, receive_buffer, network_id, socket_id, buffer,
                 response, elapsed, announced, broadcast_sent, samples,
                 codec>>

\* SamplesResponse::read(&buffer).unwrap().1, returned to command()
samples_decode ==
    /\ pc = "samples_decode"
    /\ LET r == SamplesResponse_read(buffer)
       IN  IF r.ok THEN samples' = Some(r.msg) /\ pc' = "done"
           ELSE samples' = None /\ pc' = "panicked"
    /\ UNCHANGED <<args, context, receive_buffer, wire, tx, rxlog, calls,
                 network_id, socket_id, buffer, response, elapsed, announced,
                 broadcast_sent, sent, codec, delivered, returned>>

update_time ==
    /\ pc = "update_time"
    /\ calls' = Append(calls, Call("update_time", response.val.network_id, 0, FALSE))
    /\ \E now \in EpochSeconds :
         \E ack \in ReplyVariants(UpdateTimeAckResponse_as_bytes(UpdateTimeAckResponse_new)) :
           \E resp \in IF Len(ack) = 6
                       THEN ReplyVariants(UpdateTimeResponse_as_bytes(
                                UpdateTimeResponse_new(response.val.network_id)))
                       ELSE {<<>>} :
             transmit(UpdateTimeRequest_as_bytes(
                          UpdateTimeRequest_new(response.val.network_id, now)),
                      ack \o resp)
    /\ pc' = "update_ack_rx"
    /\ UNCHANGED <<args, context, receive_buffer, network_id, socket_id, buffer,
                 response, elapsed, announced, broadcast_sent, sent, samples,
                 codec>>

\* while start_time.elapsed() < timeout
commission_loop ==
    /\ pc = "commission_loop"
    /\ pc' = IF elapsed < Timeout THEN "disc_hdr_rx" ELSE "commission_after"
    /\ UNCHANGED <<args, context, receive_buffer, wire, tx, rxlog, calls,
                 network_id, socket_id, buffer, response, elapsed, announced,
                 broadcast_sent, sent, samples, codec, delivered, returned>>

\* if buffer[1] == 0xa0 { response = Some(BroadcastResponse::read(&buffer).unwrap().1); break }
commission_frame ==
    /\ pc = "disc_frame"
    /\ IF At(buffer, 1) = 160
       THEN LET r == BroadcastResponse_read(buffer)
            IN  IF r.ok THEN response' = Some(r.msg) /\ pc' = "commission_after"
                ELSE response' = response /\ pc' = "panicked"
       ELSE response' = response /\ pc' = "commission_loop"
    /\ UNCHANGED <<args, context, receive_buffer, wire, tx, rxlog, calls,
                 network_id, socket_id, buffer, elapsed, announced,
                 broadcast_sent, sent, samples, codec, delivered, returned>>

\* a commission that locks without updating the time of the device it found;
\* the sequence property C4 tells it from commission()
commission_after_locks_only ==
    /\ pc = "commission_after"
    /\ pc' = "lock_network"
    /\ UNCHANGED <<args, context, receive_buffer, wire, tx, rxlog, calls,
                 network_id, socket_id, buffer, response, elapsed, announced,
                 broadcast_sent, sent, samples, codec, delivered, returned>>

\* if let Some(resp) = response { self.update_time(resp.network_id) }; self.lock_network()
commission_after ==
    /\ pc = "commission_after"
    /\ pc' = IF response.some THEN "update_time" ELSE "lock_network"
    /\ UNCHANGED <<args, context, receive_buffer, wire, tx, rxlog, calls,
                 network_id, socket_id, buffer, response, elapsed, announced,
                 broadcast_sent, sent, samples, codec, delivered, returned>>

(***************************************************************************)
(* command.rs: the callback Dongle::open runs after boot                    *)
(***************************************************************************)
\* a callback that locks the network itself before it commissions; the
\* property C28 tells it from command()
callback_locks_first ==
    /\ pc = "callback"
    /\ calls' = Append(calls, Call("lock_network", 0, 0, FALSE))
    /\ \E reply \in ReplyVariants(LockResponse_as_bytes(LockResponse_new)) :
         transmit(LockRequest_as_bytes(LockRequest_new), reply)
    /\ pc' = "lock_rx"
    /\ UNCHANGED <<args, context, receive_buffer, network_id, socket_id, buffer,
                 response, elapsed, announced, broadcast_sent, sent, samples,
                 codec>>

callback ==
    /\ pc = "callback"
    /\ IF args.command = "commission"
       THEN /\ calls' = Append(calls, Call("commission", 0, 0, FALSE))
            /\ pc' = "unlock_network"
            /\ UNCHANGED <<network_id, socket_id>>
       ELSE LET n == from_str_radix(args.network)
                s == parse_u16(args.socket)
            IN  IF n.ok /\ s.ok
                THEN /\ network_id' = n.value
                     /\ socket_id' = s.value
                     /\ pc' = "lock_network"
                     /\ calls' = calls
                ELSE /\ pc' = "panicked"
                     /\ UNCHANGED <<network_id, socket_id, calls>>
    /\ UNCHANGED <<args, context, receive_buffer, wire, tx, rxlog, buffer, response,
                 elapsed, announced, broadcast_sent, sent, samples, codec,
                 delivered, returned>>

(***************************************************************************)
(* The environment: the device announcing itself, and time passing          *)
(***************************************************************************)
\* while the session listens, with nothing pending, the device sends one frame
DeviceAnnounce ==
    /\ pc = "disc_hdr_rx"
    /\ announced < MaxAnnounce
    /\ wire = <<>>
    /\ receive_buffer = <<>>
    /\ \E f \in AnnounceFrames :
         /\ wire' = f
         /\ broadcast_sent' = (broadcast_sent \/ f \in BroadcastFrames)
    /\ announced' = announced + 1
    /\ UNCHANGED <<args, pc, context, receive_buffer, tx, rxlog, calls, network_id,
                 socket_id, buffer, response, elapsed, sent, samples, codec,
                 delivered, returned>>

\* a second passes while commission is in its loop
Tick ==
    /\ pc \in DiscoveryPcs
    /\ elapsed < Timeout
    /\ elapsed' = elapsed + 1
    /\ UNCHANGED <<args, pc, context, receive_buffer, wire, tx, rxlog, calls,
                 network_id, socket_id, buffer, response, announced,
                 broadcast_sent, sent, samples, codec, delivered, returned>>

\* the steps of the program
Program ==
    \/ SerialConnection_new
    \/ receive_poll
    \/ receive_return
    \/ boot
    \/ boot_confirm
    \/ callback
    \/ lock_network
    \/ unlock_network
    \/ select_network
    \/ switch
    \/ request_samples
    \/ samples_decode
    \/ update_time
    \/ commission_loop
    \/ commission_frame
    \/ commission_after

Next == Program \/ DeviceAnnounce \/ Tick

Spec == Init /\ [][Next]_vars

\* the program keeps running and the clock keeps going; the device owes nothing
FairSpec == Spec /\ WF_vars(Program) /\ WF_vars(Tick)

(***************************************************************************)
(* messages/mod.rs: the Message trait, over every message kind.  CodecSpec  *)
(* builds a message with its constructor, encodes it, may spoil the         *)
(* checksum byte of the frame, and decodes.                                 *)
(***************************************************************************)
RequestKinds == {"BootRequest", "BootConfirmRequest", "UnlockRequest", "LockRequest",
                 "UpdateTimeRequest", "HandshakeRequest", "SamplesRequest",
                 "ScheduleRequest"}

ResponseKinds == {"BootResponse", "BootConfirmResponse", "BroadcastResponse",
                  "LockResponse", "UpdateTimeAckResponse", "UpdateTimeResponse",
                  "HandshakeResponse", "AckResponse", "SamplesResponse",
                  "ScheduleResponse"}

Kinds == RequestKinds \cup ResponseKinds

\* the messages the constructors build
Messages(kind) ==
    CASE kind = "BootRequest" -> {BootRequest_new}
      [] kind = "BootConfirmRequest" -> {BootConfirmRequest_new}
      [] kind = "UnlockRequest" -> {UnlockRequest_new}
      [] kind = "LockRequest" -> {LockRequest_new}
      [] kind = "UpdateTimeRequest" ->
            {UpdateTimeRequest_new(n, t) : n \in NetworkIds, t \in EpochSeconds}
      [] kind = "HandshakeRequest" -> {HandshakeRequest_new(n) : n \in NetworkIds}
      [] kind = "SamplesRequest" ->
            {SamplesRequest_new(n, c) : n \in NetworkIds, c \in ChannelIds}
      [] kind = "ScheduleRequest" ->
            {ScheduleRequest_new(n, c) : n \in NetworkIds, c \in ChannelIds}
      [] kind = "BootResponse" ->
            {BootResponse_new(<<0, 1, 2, 3, 4, 5, 6, 7, 8, 9, 10, 11>>, DeviceId, 513)}
      [] kind = "BootConfirmResponse" -> {BootConfirmResponse_new}
      [] kind = "BroadcastResponse" ->
            {BroadcastResponse_new(n, DeviceId, 1) : n \in NetworkIds}
      [] kind = "LockResponse" -> {LockResponse_new}
      [] kind = "UpdateTimeAckResponse" -> {UpdateTimeAckResponse_new}
      [] kind = "UpdateTimeResponse" -> {UpdateTimeResponse_new(n) : n \in NetworkIds}
      [] kind = "HandshakeResponse" -> {HandshakeResponse_new}
      [] kind = "AckResponse" -> {AckResponse_new}
      [] kind = "SamplesResponse" ->
            UNION {ValidSamples(n, c) : n \in NetworkIds, c \in ChannelIds}
      [] kind = "ScheduleResponse" -> {ScheduleResponse_new}

as_bytes(kind, m) ==
    CASE kind = "BootRequest" -> BootRequest_as_bytes(m)
      [] kind = "BootConfirmRequest" -> BootConfirmRequest_as_bytes(m)
      [] kind = "UnlockRequest" -> UnlockRequest_as_bytes(m)
      [] kind = "LockRequest" -> LockRequest_as_bytes(m)
      [] kind = "UpdateTimeRequest" -> UpdateTimeRequest_as_bytes(m)
      [] kind = "HandshakeRequest" -> HandshakeRequest_as_bytes(m)
      [] kind = "SamplesRequest" -> SamplesRequest_as_bytes(m)
      [] kind = "ScheduleRequest" -> ScheduleRequest_as_bytes(m)
      [] kind = "BootResponse" -> BootResponse_as_bytes(m)
      [] kind = "BootConfirmResponse" -> BootConfirmResponse_as_bytes(m)
      [] kind = "BroadcastResponse" -> BroadcastResponse_as_bytes(m)
      [] kind = "LockResponse" -> LockResponse_as_bytes(m)
      [] kind = "UpdateTimeAckResponse" -> UpdateTimeAckResponse_as_bytes(m)
      [] kind = "UpdateTimeResponse" -> UpdateTimeResponse_as_bytes(m)
      [] kind = "HandshakeResponse" -> HandshakeResponse_as_bytes(m)
      [] kind = "AckResponse" -> AckResponse_as_bytes(m)
      [] kind = "SamplesResponse" -> SamplesResponse_as_bytes(m)
      [] kind = "ScheduleResponse" -> ScheduleResponse_as_bytes(m)

calculate_checksum(kind, m) ==
    CASE kind = "BootRequest" -> BootRequest_calculate_checksum(m)
      [] kind = "BootConfirmRequest" -> BootConfirmRequest_calculate_checksum(m)
      [] kind = "UnlockRequest" -> UnlockRequest_calculate_checksum(m)
      [] kind = "LockRequest" -> LockRequest_calculate_checksum(m)
      [] kind = "UpdateTimeRequest" -> UpdateTimeRequest_calculate_checksum(m)
      [] kind = "HandshakeRequest" -> HandshakeRequest_calculate_checksum(m)
      [] kind = "SamplesRequest" -> SamplesRequest_calculate_checksum(m)
      [] kind = "ScheduleRequest" -> ScheduleRequest_calculate_checksum(m)
      [] kind = "BootResponse" -> BootResponse_calculate_checksum(m)
      [] kind = "BootConfirmResponse" -> BootConfirmResponse_calculate_checksum(m)
      [] kind = "BroadcastResponse" -> BroadcastResponse_calculate_checksum(m)
      [] kind = "LockResponse" -> LockResponse_calculate_checksum(m)
      [] kind = "UpdateTimeAckResponse" -> UpdateTimeAckResponse_calculate_checksum(m)
      [] kind = "UpdateTimeResponse" -> UpdateTimeResponse_calculate_checksum(m)
      [] kind = "HandshakeResponse" -> HandshakeResponse_calculate_checksum(m)
      [] kind = "AckResponse" -> AckResponse_calculate_checksum(m)
      [] kind = "SamplesResponse" -> SamplesResponse_calculate_checksum(m)
      [] kind = "ScheduleResponse" -> ScheduleResponse_calculate_checksum(m)

\* now: the clock UpdateTimeRequest::read reads through UpdateTimeRequest::new
read(kind, input, now) ==
    CASE kind = "BootRequest" -> BootRequest_read(input)
      [] kind = "BootConfirmRequest" -> BootConfirmRequest_read(input)
      [] kind = "UnlockRequest" -> UnlockRequest_read(input)
      [] kind = "LockRequest" -> LockRequest_read(input)
      [] kind = "UpdateTimeRequest" -> UpdateTimeRequest_read(input, now)
      [] kind = "HandshakeRequest" -> HandshakeRequest_read(input)
      [] kind = "SamplesRequest" -> SamplesRequest_read(input)
      [] kind = "ScheduleRequest" -> ScheduleRequest_read(input)
      [] kind = "BootResponse" -> BootResponse_read(input)
      [] kind = "BootConfirmResponse" -> BootConfirmResponse_read(input)
      [] kind = "BroadcastResponse" -> BroadcastResponse_read(input)
      [] kind = "LockResponse" -> LockResponse_read(input)
      [] kind = "UpdateTimeAckResponse" -> UpdateTimeAckResponse_read(input)
      [] kind = "UpdateTimeResponse" -> UpdateTimeResponse_read(input)
      [] kind = "HandshakeResponse" -> HandshakeResponse_read(input)
      [] kind = "AckResponse" -> AckResponse_read(input)
      [] kind = "SamplesResponse" -> SamplesResponse_read(input)
      [] kind = "ScheduleResponse" -> ScheduleResponse_read(input)

CodecInit ==
    /\ args = [command |-> "commission", network |-> <<>>, socket |-> <<>>]
    /\ pc = "codec"
    /\ context = "none"
    /\ receive_buffer = <<>>
    /\ wire = <<>>
    /\ tx = <<>>
    /\ rxlog = <<>>
    /\ calls = <<>>
    /\ network_id = 0
    /\ socket_id = 0
    /\ buffer = <<>>
    /\ response = None
    /\ elapsed = 0
    /\ announced = 0
    /\ broadcast_sent = FALSE
    /\ sent = None
    /\ samples = None
    /\ delivered = <<>>
    /\ returned = <<>>
    /\ \E kind \in Kinds : \E m \in Messages(kind) :
         codec = [phase |-> "built", kind |-> kind, msg |-> m, frame |-> <<>>,
                  corrupted |-> FALSE, result |-> Incomplete(0)]

codec_encode ==
    /\ codec.phase = "built"
    /\ codec' = [codec EXCEPT !.phase = "encoded",
                              !.frame = as_bytes(codec.kind, codec.msg)]
    /\ UNCHANGED <<args, pc, context, receive_buffer, wire, tx, rxlog, calls,
                 network_id, socket_id, buffer, response, elapsed, announced,
                 broadcast_sent, sent, samples, delivered, returned>>

\* the trailing byte of the frame is replaced by another value
codec_corrupt ==
    /\ codec.phase = "encoded"
    /\ ~codec.corrupted
    /\ codec.frame = as_bytes(codec.kind, codec.msg)
    /\ \E c \in {1, Xor8(codec.frame[Len(codec.frame)], 1)} :
         /\ c # codec.frame[Len(codec.frame)]
         /\ codec' = [codec EXCEPT !.corrupted = TRUE,
                                   !.frame = [codec.frame EXCEPT ![Len(codec.frame)] = c]]
    /\ UNCHANGED <<args, pc, context, receive_buffer, wire, tx, rxlog, calls,
                 network_id, socket_id, buffer, response, elapsed, announced,
                 broadcast_sent, sent, samples, delivered, returned>>

\* the frame reaches the decoder under another command code, its checksum valid
codec_other_command ==
    /\ codec.phase = "encoded"
    /\ codec.frame = as_bytes(codec.kind, codec.msg)
    /\ codec' = [codec EXCEPT !.frame = OtherCommand(codec.frame)]
    /\ UNCHANGED <<args, pc, context, receive_buffer, wire, tx, rxlog, calls,
                 network_id, socket_id, buffer, response, elapsed, announced,
                 broadcast_sent, sent, samples, delivered, returned>>

\* only a proper prefix of the frame reaches the decoder
codec_truncate ==
    /\ codec.phase = "encoded"
    /\ ~codec.corrupted
    /\ codec.frame = as_bytes(codec.kind, codec.msg)
    /\ \E n \in 0..(Len(codec.frame) - 1) :
         codec' = [codec EXCEPT !.frame = SubSeq(codec.frame, 1, n)]
    /\ UNCHANGED <<args, pc, context, receive_buffer, wire, tx, rxlog, calls,
                 network_id, socket_id, buffer, response, elapsed, announced,
                 broadcast_sent, sent, samples, delivered, returned>>

codec_decode ==
    /\ codec.phase = "encoded"
    /\ \E now \in EpochSeconds :
         codec' = [codec EXCEPT !.phase = "decoded",
                                !.result = read(codec.kind, codec.frame, now)]
    /\ UNCHANGED <<args, pc, context, receive_buffer, wire, tx, rxlog, calls,
                 network_id, socket_id, buffer, response, elapsed, announced,
                 broadcast_sent, sent, samples, delivered, returned>>

CodecNext ==
    codec_encode \/ codec_corrupt \/ codec_other_command \/ codec_truncate \/ codec_decode

CodecSpec == CodecInit /\ [][CodecNext]_vars

(***************************************************************************)
(* Properties                                                               *)
(***************************************************************************)
\* the invocation is over: command() has returned or a panic has unwound it
Ended == pc \in {"done", "panicked"}

BootFrame == BootRequest_as_bytes(BootRequest_new)

BootConfirmFrame == BootConfirmRequest_as_bytes(BootConfirmRequest_new)

UnlockFrame == UnlockRequest_as_bytes(UnlockRequest_new)

LockFrame == LockRequest_as_bytes(LockRequest_new)

UnlockSent == \E i \in 1..Len(tx) : tx[i] = UnlockFrame

\* C1: once commission has transmitted Unlock, the invocation does not end
\* unless the last frame transmitted is a Lock request and its 6-byte response
\* has been consumed, whatever the path out of the discovery loop.
C1_LockIsTerminal ==
    (Ended /\ UnlockSent) => (tx[Len(tx)] = LockFrame /\ rxlog = <<6>>)

\* C2: when the invocation is over and SerialConnection::new had opened the
\* transport, SerialConnection::close has been performed.
C2_TransportReleased ==
    (Ended /\ context # "none") => context = "closed"

\* C3: whatever the transport does, once the 30-second deadline has passed
\* commission eventually leaves its discovery loop.
C3_DiscoveryTerminates ==
    (pc \in DiscoveryPcs /\ elapsed >= Timeout) ~> (pc \notin DiscoveryPcs)


\* commission holds the complete Broadcast frame of network n in its buffer
Delivered(n) == args.command = "commission" /\ buffer = BroadcastFrame(n)

UpdateTimeFrames(n) ==
    {UpdateTimeRequest_as_bytes(UpdateTimeRequest_new(n, now)) : now \in EpochSeconds}

IsUpdateTimeFrame(f) == Len(f) >= 3 /\ f[2] = 64 /\ f[3] = 34

\* C5: when no Broadcast frame was delivered during discovery, commission
\* stays in its loop until the deadline, sends no Update-time request, does
\* not fail, and has sent exactly Unlock then Lock when it returns.
C5_NoDeviceFound ==
    (args.command = "commission" /\ UnlockSent /\ ~broadcast_sent) =>
        /\ pc # "panicked"
        /\ pc \notin (DiscoveryPcs \cup {"unlock_rx"}) => elapsed >= Timeout
        /\ \A i \in 1..Len(tx) : ~IsUpdateTimeFrame(tx[i])
        /\ pc = "done" => tx = <<BootFrame, BootConfirmFrame, UnlockFrame, LockFrame>>

\* the network and socket a command line names
ArgNetwork ==
    CASE args.network = <<"0", "x", "0", "0", "1", "0">> -> 16
      [] args.network = <<"0", "x", "1", "2", "3", "4">> -> 4660
      [] OTHER -> -1

ArgSocket ==
    CASE args.socket = <<"1">> -> 1
      [] args.socket = <<"0">> -> 0
      [] OTHER -> -1

ValidArgs == ArgNetwork >= 0 /\ ArgSocket >= 0

\* boot and boot_confirm have completed and the callback has started
Booted ==
    /\ context = "open"
    /\ pc \notin {"start", "boot", "boot_rx", "boot_confirm", "boot_confirm_rx", "callback"}

HandshakeFrame(n) == HandshakeRequest_as_bytes(HandshakeRequest_new(n))

IsScheduleFrame(f) == Len(f) >= 3 /\ f[2] = 64 /\ f[3] = 35

\* C6: `on -n N -s S` and `off -n N -s S` end successfully, having sent after
\* boot exactly Lock, Handshake(N) and one Schedule request, in that order.
C6_SwitchCompletes ==
    (args.command \in {"on", "off"} /\ ValidArgs /\ Booted /\ Ended) =>
        /\ pc = "done"
        /\ Len(tx) = 5
        /\ SubSeq(tx, 1, 4) =
             <<BootFrame, BootConfirmFrame, LockFrame, HandshakeFrame(ArgNetwork)>>
        /\ IsScheduleFrame(tx[5])

\* the Dongle methods entered so far, as (method, network, socket)
CallsMade == [i \in 1..Len(calls) |-> <<calls[i].op, calls[i].network, calls[i].socket>>]

ReadCalls ==
    <<<<"lock_network", 0, 0>>,
      <<"select_network", ArgNetwork, 0>>,
      <<"request_samples", ArgNetwork, ArgSocket>>>>

C8_SamplesAsSent ==
    (samples.some /\ sent.some) =>
        /\ samples.val.samples = sent.val.samples
        /\ samples.val.stored_sample_count = sent.val.stored_sample_count

\* the XOR fold over command, payload_length and payload of a frame
FrameChecksum(f) == XorFold(SubSeq(f, 2, Len(f) - 1))

\* the frame under decode is the whole encoding of the message, unaltered
FrameIntact == codec.frame = as_bytes(codec.kind, codec.msg)

\* the frame under decode has the length of the whole encoding
FrameComplete == Len(codec.frame) = Len(as_bytes(codec.kind, codec.msg))

\* C9: a frame whose trailing byte differs from the XOR fold of its command,
\* payload_length and payload bytes is never decoded to Ok.
C9_ChecksumRejected ==
    (/\ codec.phase = "decoded"
     /\ FrameComplete
     /\ codec.frame[Len(codec.frame)] # FrameChecksum(codec.frame))
        => ~codec.result.ok

\* C10: decoding the encoding of a message succeeds and gives the message back,
\* field for field.
C10_RoundTrip ==
    (codec.phase = "decoded" /\ FrameIntact) =>
        (codec.result.ok /\ codec.result.msg = codec.msg)

\* C11: the checksum a constructor stores is the XOR fold of the encoded bytes
\* from the command through the end of the payload, and it is the last byte of
\* the frame; BootRequest::new() has checksum 0x44 and encodes to 02 40 04 00 44.
C11_ChecksumIsFold ==
    (codec.phase = "encoded" /\ FrameIntact) =>
        /\ codec.msg.checksum = FrameChecksum(codec.frame)
        /\ codec.msg.checksum = calculate_checksum(codec.kind, codec.msg)
        /\ codec.frame[Len(codec.frame)] = codec.msg.checksum
        /\ codec.kind = "BootRequest" =>
             (codec.msg.checksum = 68 /\ codec.frame = <<2, 64, 4, 0, 68>>)

\* BootRequest::new() has been encoded
C11_BootRequestEncoded ==
    codec.phase = "encoded" /\ FrameIntact /\ codec.kind = "BootRequest"

\* the sample_count byte of a Samples response frame

\* C12: SamplesResponse::read of a complete frame with sample_count = k yields
\* exactly the k little-endian words of the 2k bytes after the 18-byte fixed
\* part (none when k = 0) and takes the checksum from the byte right after them.
C12_VariableLengthSamples ==
    (codec.phase = "decoded" /\ codec.kind = "SamplesResponse" /\ FrameComplete) =>
        LET f == codec.frame
            k == f[15]
        IN  /\ Len(f) = 18 + 2 * k + 1
            /\ codec.result.ok
            /\ Len(codec.result.msg.samples) = k
            /\ \A i \in 1..k :
                 codec.result.msg.samples[i] = f[18 + 2 * i] * 256 + f[18 + 2 * i - 1]
            /\ codec.result.msg.checksum = f[18 + 2 * k + 1]
            /\ k = 0 => codec.result.msg.samples = <<>>

\* a Samples response carrying two sample words has been decoded
C12_TwoSamplesDecoded ==
    /\ codec.phase = "decoded"
    /\ codec.kind = "SamplesResponse"
    /\ FrameComplete
    /\ codec.frame[15] = 2

\* C13: for every kind, decoding a proper prefix of an encoded frame gives
\* Incomplete, never a message, and decoding the whole frame does not.
C13_PrefixIsIncomplete ==
    (codec.phase = "decoded" /\ ~codec.corrupted) =>
        IF FrameComplete THEN codec.result.ok
        ELSE ~codec.result.ok /\ codec.result.needed > Len(codec.frame)

\* C14: a frame whose command field is not the code of the kind being decoded
\* is answered with an error, never with a message.
C14_UnknownCommandRejected ==
    (/\ codec.phase = "decoded"
     /\ FrameComplete
     /\ u16_from_be_bytes(<<codec.frame[2], codec.frame[3]>>) # codec.msg.command)
        => ~codec.result.ok

\* the command code of the response each transaction decodes after its receive
ExpectedCommand ==
    CASE pc = "boot_rx" -> BootResponse_new(<<>>, DeviceId, 0).command
      [] pc = "boot_confirm_rx" -> BootConfirmResponse_new.command
      [] pc \in {"lock_rx", "unlock_rx"} -> LockResponse_new.command
      [] pc = "select_rx" -> HandshakeResponse_new.command
      [] pc = "switch_rx" -> ScheduleResponse_new.command
      [] pc = "samples_ack_rx" -> AckResponse_new.command
      [] pc = "update_ack_rx" -> UpdateTimeAckResponse_new.command
      [] pc = "update_resp_rx" -> UpdateTimeResponse_new(0).command
      [] OTHER -> 0

\* receive hands a transaction a response frame under another command code
UnexpectedResponse ==
    /\ ExpectedCommand # 0
    /\ Len(receive_buffer) >= RxBytes
    /\ u16_from_be_bytes(<<receive_buffer[2], receive_buffer[3]>>) # ExpectedCommand
    /\ pc' # pc

\* C15: a transaction that is handed a response whose command code is not the
\* one expected for its request ends the invocation with an error instead of
\* going on to the next step.
C15_UnexpectedResponseFatal ==
    [][UnexpectedResponse => pc' = "panicked"]_vars


\* receive hands boot or boot_confirm a frame that is not the valid response
\* expected there: wrong command code or wrong checksum
BootStepFails ==
    /\ pc \in {"boot_rx", "boot_confirm_rx"}
    /\ Len(receive_buffer) >= RxBytes
    /\ pc' # pc
    /\ LET f == SubSeq(receive_buffer, 1, RxBytes)
       IN  \/ u16_from_be_bytes(<<f[2], f[3]>>) # ExpectedCommand
           \/ f[RxBytes] # FrameChecksum(f)

\* C16: open acquires the transport, sends Boot, consumes a 27-byte response,
\* sends Boot-confirm, consumes a 6-byte response and only then runs the
\* caller's operation; a boot step that receives anything but its valid
\* response is fatal, so the operation does not run after it.
C16_BootThenOperation ==
    [][/\ pc' = "boot_confirm" =>
            (pc = "boot_rx" /\ context = "open" /\ tx = <<BootFrame>> /\ rxlog' = <<27>>)
       /\ pc' = "callback" =>
            (/\ pc = "boot_confirm_rx"
             /\ context = "open"
             /\ tx = <<BootFrame, BootConfirmFrame>>
             /\ rxlog' = <<6>>)
       /\ BootStepFails => pc' = "panicked"]_vars

\* C17: when the network or socket argument does not parse, the invocation is
\* aborted with no hardware I/O behind it: the transport was not opened and
\* nothing was transmitted or received.
C17_MalformedInputBeforeIO ==
    (args.command # "commission" /\ ~ValidArgs /\ pc = "panicked") =>
        (context = "none" /\ tx = <<>> /\ rxlog = <<>>)

\* C18: whenever a request is transmitted, every byte the device has sent so
\* far has been consumed, and the receives since the previous request took
\* its whole response: 27 bytes after Boot, 6 after Boot-confirm, Lock, Unlock
\* and Handshake, 6 then 8 after Update-time.
C18_OneInFlight ==
    [][tx' # tx =>
        /\ wire = <<>>
        /\ receive_buffer = <<>>
        /\ tx # <<>> =>
             LET last == tx[Len(tx)]
             IN  /\ rxlog # <<>>
                 /\ last = BootFrame => rxlog = <<27>>
                 /\ last \in {BootConfirmFrame, LockFrame} => rxlog = <<6>>
                 /\ last = UnlockFrame => rxlog[1] = 6
                 /\ (\E n \in NetworkIds : last = HandshakeFrame(n)) => rxlog = <<6>>
                 /\ IsUpdateTimeFrame(last) => rxlog = <<6, 8>>]_vars

\* the final Lock of commission has been transmitted after an Update-time
C18_LockAfterUpdateTime ==
    /\ Len(tx) = 5
    /\ IsUpdateTimeFrame(tx[4])
    /\ tx[5] = LockFrame

\* C19: receive(n) does not return while fewer than n bytes are buffered - a
\* read that yields nothing leaves it waiting - and when it returns it takes
\* exactly the first n buffered bytes, no fewer and no more.
C19_ReceiveExactly ==
    [][(pc \in RxPcs) =>
        /\ Len(receive_buffer) < RxBytes => pc' = pc
        /\ pc' # pc =>
             /\ rxlog' = Append(rxlog, RxBytes)
             /\ receive_buffer' = SubSeq(receive_buffer, RxBytes + 1, Len(receive_buffer))
             /\ Len(receive_buffer') = Len(receive_buffer) - RxBytes
             /\ wire' = wire
             /\ pc \in {"samples_hdr_rx", "disc_hdr_rx"} =>
                  buffer' = SubSeq(receive_buffer, 1, RxBytes)
             /\ pc \in {"samples_body_rx", "disc_body_rx"} =>
                  buffer' = buffer \o SubSeq(receive_buffer, 1, RxBytes)]_vars

\* receive(27) has returned to boot
C19_BootResponseReceived == pc = "boot_confirm" /\ rxlog = <<27>>

\* C20: once switch is entered it transmits one Schedule frame for its network
\* and channel with a 56-byte bitmap (65 bytes in all), then consumes the
\* 6-byte Schedule response and returns; it does not fail.
C20_SwitchTransmitsBitmap ==
    (calls # <<>> /\ calls[Len(calls)].op = "switch") =>
        /\ pc \in {"switch_rx", "done"}
        /\ LET f == tx[Len(tx)]
           IN  /\ IsScheduleFrame(f)
               /\ Len(f) = 4 + 4 + 56 + 1
               /\ u16_from_be_bytes(<<f[5], f[6]>>) = calls[Len(calls)].network
               /\ u16_from_be_bytes(<<f[7], f[8]>>) = calls[Len(calls)].socket
        /\ pc = "done" => rxlog = <<6>>

\* C21: when the decoder of request_samples or of commission reports Incomplete
\* for the bytes the session read, the session does not fail: it goes on (to read
\* more and decode again).
C21_IncompleteRecovered ==
    [][(\/ pc = "samples_decode" /\ ~SamplesResponse_read(buffer).ok
        \/ pc = "disc_frame" /\ At(buffer, 1) = 160 /\ ~BroadcastResponse_read(buffer).ok)
       => pc' # "panicked"]_vars

\* C22: in discovery a received frame is taken as a Broadcast (decoded, its
\* network id recorded, the loop left) exactly when its command code is 0xA013;
\* a frame under any other code is skipped and the loop goes on listening.
C22_OnlyBroadcastCodeDecoded ==
    [][(pc = "disc_frame" /\ pc' # pc) =>
          IF u16_from_be_bytes(<<buffer[2], buffer[3]>>) = 40979
          THEN /\ pc' = "commission_after"
               /\ response'.some
               /\ response'.val.network_id = u16_from_be_bytes(<<buffer[5], buffer[6]>>)
          ELSE pc' = "commission_loop" /\ response' = response]_vars

\* C23: every frame handed to transmit ends in the XOR fold of its bytes between
\* the header byte and the checksum byte, and switch hands transmit such a frame:
\* a Schedule request carrying the bitmap that always_on or always_off put in
\* place of the constructor's schedule.
C23_ChecksumOfCurrentFields ==
    [][/\ tx' # tx =>
            LET f == tx'[Len(tx')]
            IN  f[Len(f)] = FrameChecksum(f)
       /\ (pc = "switch" /\ pc' # pc) =>
            /\ Len(tx') = Len(tx) + 1
            /\ LET f == tx'[Len(tx')]
               IN  /\ IsScheduleFrame(f)
                   /\ f[9] = 127
                   /\ f[Len(f)] = FrameChecksum(f)]_vars

C25_NoRetry ==
    [][/\ tx' # tx =>
            /\ Len(tx') = Len(tx) + 1
            /\ SubSeq(tx', 1, Len(tx)) = tx
            /\ pc \in {"boot", "boot_confirm", "lock_network", "unlock_network",
                       "select_network", "switch", "request_samples", "update_time"}
            /\ pc' \in RxPcs
       /\ (pc \in RxPcs) => tx' = tx
       /\ \A i, j \in 1..Len(tx') : i # j => tx'[i] # tx'[j]
       /\ Len(tx') <= 2 + Cardinality({i \in 1..Len(calls') : calls'[i].op # "commission"})
      ]_vars

\* `read` has returned: five operations, five frames
C25_ReadDoneFiveFrames ==
    /\ args.command = "read"
    /\ pc = "done"
    /\ Len(calls) = 3
    /\ Len(tx) = 5

\* C26: a successful read of a buffer that holds a complete frame of length L
\* returns, as the remaining input, the buffer without its first L bytes: the
\* decoder has consumed exactly L bytes.
C26_ConsumedIsFrameLength ==
    (codec.phase = "decoded" /\ FrameIntact /\ codec.result.ok) =>
        LET L == Len(as_bytes(codec.kind, codec.msg))
        IN  /\ codec.result.rest = SubSeq(codec.frame, L + 1, Len(codec.frame))
            /\ Len(codec.frame) - Len(codec.result.rest) = L

\* C27: each field keeps its byte order through encode and decode.  The command
\* is on the wire most significant byte first and is read back; network and
\* channel ids are read back as written; the Update-time seconds, the Samples
\* response time, the sample words and the 3-byte stored count are on the wire
\* least significant byte first and are read back as written.
C27_FieldByteOrder ==
    (codec.phase = "decoded" /\ FrameIntact /\ codec.result.ok) =>
        LET m == codec.msg
            d == codec.result.msg
            f == codec.frame
            Same(field) == (field \in DOMAIN m) => d[field] = m[field]
        IN  /\ SubSeq(f, 2, 3) = write_u16_BE(m.command)
            /\ Same("command")
            /\ Same("network_id")
            /\ Same("channel_id")
            /\ Same("time")
            /\ Same("samples")
            /\ Same("stored_sample_count")
            /\ codec.kind = "UpdateTimeRequest" =>
                 SubSeq(f, 7, 10) = write_u16_LE(m.time[2]) \o write_u16_LE(m.time[1])
            /\ codec.kind = "SamplesResponse" =>
                 /\ SubSeq(f, 11, 14) = write_u16_LE(m.time[2]) \o write_u16_LE(m.time[1])
                 /\ SubSeq(f, 16, 18) = StoredCountBytes(m.stored_sample_count)
                 /\ \A i \in 1..Len(m.samples) :
                      /\ f[18 + 2 * i - 1] = m.samples[i] % 256
                      /\ f[18 + 2 * i] = m.samples[i] \div 256

C29_StreamPreserved ==
    returned \o receive_buffer = delivered

\* request_samples has taken the ack and the header, 10 bytes, out of a buffer
\* that already holds bytes of the remainder
C29_ExcessKept ==
    /\ pc = "samples_body_rx"
    /\ Len(returned) = 10
    /\ receive_buffer # <<>>
    /\ Len(delivered) > 10

\* C30: in the frame of every request a constructor builds, the payload_length
\* byte is the number of bytes between it and the checksum byte: 0 for Boot and
\* Boot-confirm, 4 for Unlock, Lock and Handshake, 6 for Update-time and
\* Samples, 2 + 2 + 56 for Schedule.
C30_PayloadLengthIsCount ==
    (codec.phase = "encoded" /\ FrameIntact /\ codec.kind \in RequestKinds) =>
        LET written == Len(codec.frame) - 5
        IN  /\ codec.frame[4] = written
            /\ codec.msg.payload_length = written
            /\ written =
                 CASE codec.kind \in {"BootRequest", "BootConfirmRequest"} -> 0
                   [] codec.kind \in {"UnlockRequest", "LockRequest", "HandshakeRequest"} -> 4
                   [] codec.kind \in {"UpdateTimeRequest", "SamplesRequest"} -> 6
                   [] codec.kind = "ScheduleRequest" -> 2 + 2 + 56
====
